---- MODULE Spec2Model ----
(***************************************************************************)
(* The "31" (Scat) rules engine of shared/src/game.ts together with the    *)
(* room operations, the CPU policy and the server's CPU driver loop.       *)
(*                                                                         *)
(* Cards are the integers 0..51: card n is the n-th card makeDeck pushes,  *)
(* so its suit is n \div 13 in the order S,H,D,C, its rank is n % 13 in    *)
(* the order A,K,Q,J,10,9,...,2 and its id `${suit}${rank}-${n}` is n.     *)
(* Player ids (uuids in the code) are the seat numbers 0..n-1; null ids    *)
(* are NoId and null card ids NoCard.  Hand values are kept in hundredths  *)
(* (31 is 3100, 30.5 is 3050, the hard tier's 0.15 bonus is 15) so that    *)
(* the fractional three-of-a-kind value stays an integer.                  *)
(***************************************************************************)
EXTENDS Integers, Sequences, FiniteSets, TLC

VARIABLES
  state,          \* the room's GameState record
  cpuDifficulty,  \* Room.cpuDifficulty
  pc,             \* "idle": between socket handlers; "cpu": inside runCpuLoop
  guard,          \* runCpuLoop's iteration counter
  events,         \* how many socket events the server has accepted so far
  dealtBy         \* the operation that dealt in the latest step, or "none"

vars == <<state, cpuDifficulty, pc, guard, events, dealtBy>>

-----------------------------------------------------------------------------
(* Bounds of the exploration *)

MaxCpu == 2
MaxSeats == 3
MaxLives == 3
MaxEvents == 3
MaxTable == 4
MaxHandRank == 6
MaxSeed == 40
SoloExtra == 1

-----------------------------------------------------------------------------
(* Encodings *)

NoId == 0 - 1
NoCard == 0 - 1
NoValue == 0 - 1
DeckSize == 52
RanksPerSuit == 13
Cards == 0 .. (DeckSize - 1)
Suits == 0 .. 3
Hundred == 100

cardSuit(c) == c \div RanksPerSuit
cardRank(c) == c % RanksPerSuit

Max2(a, b) == IF a >= b THEN a ELSE b

RECURSIVE SeqMax(_)
SeqMax(q) == IF Len(q) = 1 THEN q[1] ELSE Max2(q[1], SeqMax(Tail(q)))

RECURSIVE SeqMin(_)
SeqMin(q) == IF Len(q) = 1 THEN q[1] ELSE LET m == SeqMin(Tail(q)) IN IF q[1] <= m THEN q[1] ELSE m

RECURSIVE SeqSum(_)
SeqSum(q) == IF q = <<>> THEN 0 ELSE q[1] + SeqSum(Tail(q))

Range(q) == {q[i] : i \in 1 .. Len(q)}

-----------------------------------------------------------------------------
(* Hand-value engine *)

\* rankValue: A=11, K/Q/J=10, numerals parseInt(rank); in hundredths.
rankValue(rank) ==
  IF rank = 0 THEN 11 * Hundred
  ELSE IF rank \in {1, 2, 3} THEN 10 * Hundred
  ELSE (14 - rank) * Hundred

\* suitSum adding up the cards of every suit.
suitSumAnySuit(hand, suit) ==
  SeqSum([i \in 1 .. Len(hand) |-> rankValue(cardRank(hand[i]))])

suitSum(hand, suit) ==
  SeqSum([i \in 1 .. Len(hand) |-> IF cardSuit(hand[i]) = suit THEN rankValue(cardRank(hand[i])) ELSE 0])

handValue(hand, rules) ==
  IF Len(hand) # 3 THEN 0
  ELSE IF rules.threeOfKindValue # NoValue
          /\ cardRank(hand[1]) = cardRank(hand[2])
          /\ cardRank(hand[2]) = cardRank(hand[3])
       THEN rules.threeOfKindValue
  ELSE LET bestSuitSum == SeqMax([s \in 1 .. 4 |-> suitSum(hand, s - 1)])
           bestSingle == SeqMax([i \in 1 .. 3 |-> rankValue(cardRank(hand[i]))])
       IN Max2(bestSuitSum, bestSingle)

hasExact31(hand, rules) == handValue(hand, rules) = 31 * Hundred

-----------------------------------------------------------------------------
(* Deck and deterministic RNG.  The generator's 32-bit state s is kept as  *)
(* the pair <<s \div 2^16, s % 2^16>> so that no intermediate product      *)
(* leaves the range of TLC's integers.                                     *)

Half == 65536

\* seed >>> 0
rngOfSeed(seed) == <<(seed \div Half) % Half, seed % Half>>

\* s = (1664525 * s + 1013904223) >>> 0, with 1664525 = 25 * 2^16 + 26125
\* and 1013904223 = 15470 * 2^16 + 62303.
lcgNext(s) ==
  LET lo == 26125 * s[2] + 62303
      hi == 25 * s[2] + 26125 * s[1] + 15470 + (lo \div Half)
  IN <<hi % Half, lo % Half>>

\* Math.floor((s / 2 ** 32) * k) for 1 <= k <= 52 (exact in doubles).
rngPick(s, k) == (s[1] * k + ((s[2] * k) \div Half)) \div Half

\* [arr[i], arr[j]] = [arr[j], arr[i]] on 0-based indices.
swap(arr, i, j) == [arr EXCEPT ![i + 1] = arr[j + 1], ![j + 1] = arr[i + 1]]

RECURSIVE shuffleLoop(_, _, _)
shuffleLoop(arr, i, s) ==
  IF i <= 0 THEN arr
  ELSE LET s2 == lcgNext(s)
           j == rngPick(s2, i + 1)
       IN shuffleLoop(swap(arr, i, j), i - 1, s2)

\* shuffleInPlace: Fisher-Yates from the last index down to 1.
shuffleInPlace(arr, seed) == shuffleLoop(arr, Len(arr) - 1, rngOfSeed(seed))

\* makeDeck: the 52 cards in construction order, then shuffled.
makeDeck(seed) == shuffleInPlace([n \in 1 .. DeckSize |-> n - 1], seed)

\* arr.slice(0, -1), and the last element of an array
front(q) == SubSeq(q, 1, Len(q) - 1)
last(q) == q[Len(q)]

\* what arr.pop() leaves of a non-empty array (it returns last(arr))
pop(q) == front(q)

\* The seeds createRoom may draw (Math.floor(Math.random() * 1e9)), and the
\* decks of every seed a room started from one of them can deal from.
Seeds == {1, 2}

\* A seed picked for what its decks hold: the first deal of 57043 lets the
\* host of a two-seat room reach 31 with the first discard, and the deal
\* that follows it (seed 57044) hands out a 31; the first deal of 13848 has
\* a hard CPU knock at once and the host reach 31 with the discard after it.
Seeds31 == {57043, 13848}
DealSeeds == {seed + k : seed \in Seeds \cup Seeds31, k \in 0 .. (MaxEvents + SoloExtra)}
Decks == {<<seed, makeDeck(seed)>> : seed \in DealSeeds}

\* makeDeck(seed), read from Decks where it is tabulated
deckOf(seed) ==
  IF seed \in DealSeeds THEN (CHOOSE d \in Decks : d[1] = seed)[2] ELSE makeDeck(seed)

-----------------------------------------------------------------------------
(* Players, turn order and life loss *)

Seats(s) == DOMAIN s.players
NumPlayers(s) == Cardinality(DOMAIN s.players)

\* makePlayer (the turn-stage fields are absent, i.e. null, on a new player)
makePlayer(id, type) ==
  [id |-> id, type |-> type, hand |-> <<>>, lives |-> 3, eliminated |-> FALSE,
   turnStage |-> "null", drawnCardId |-> NoCard, tookDiscardId |-> NoCard]

\* One line of lastActionLog: the message and the player it names.
LogEntry(msg, who) == [msg |-> msg, who |-> who]
logPush(s, msg, who) == [s EXCEPT !.lastActionLog = Append(@, LogEntry(msg, who))]

\* nextActiveFrom without the test that skips eliminated seats.
nextActiveNoSkip(s, fromIndex, step) == (fromIndex + step) % NumPlayers(s)

RECURSIVE nextActiveFrom(_, _, _)
nextActiveFrom(s, fromIndex, step) ==
  LET n == NumPlayers(s)
      idx == (fromIndex + step) % n
  IN IF step > n THEN fromIndex
     ELSE IF ~s.players[idx].eliminated THEN idx
     ELSE nextActiveFrom(s, fromIndex, step + 1)

nextActiveIndex(s, fromIndex) == nextActiveFrom(s, fromIndex, 1)

\* activePlayers, as the set of their seats
activePlayers(s) == {i \in Seats(s) : ~s.players[i].eliminated}

loseLives(p, n) ==
  IF p.eliminated THEN p
  ELSE IF p.lives - n <= 0 THEN [p EXCEPT !.lives = 0, !.eliminated = TRUE]
  ELSE [p EXCEPT !.lives = p.lives - n]

\* for (p of players) if (p in losers) loseLives(p, n)
loseLivesAll(s, losers, n) ==
  [s EXCEPT !.players = [i \in Seats(s) |-> IF i \in losers THEN loseLives(s.players[i], n) ELSE s.players[i]]]

finishElimsAndMaybeGameOver(s) ==
  LET alive == activePlayers(s)
  IN IF Cardinality(alive) = 1
     THEN [s EXCEPT !.winnerId = s.players[CHOOSE i \in alive : TRUE].id, !.phase = "GAME_OVER"]
     ELSE [s EXCEPT !.winnerId = NoId]

\* settlePhase leaving the phase as it finds it.
settlePhaseSkipped(s) == s

\* state.phase = state.winnerId ? "GAME_OVER" : "HAND_OVER"
settlePhase(s) == [s EXCEPT !.phase = IF s.winnerId # NoId THEN "GAME_OVER" ELSE "HAND_OVER"]

resetTurnStages(s) ==
  [s EXCEPT !.players = [i \in Seats(s) |->
     [s.players[i] EXCEPT !.turnStage = "null", !.drawnCardId = NoCard, !.tookDiscardId = NoCard]]]

advanceTurn(s) ==
  LET t == s.turnIndex
  IN [s EXCEPT !.players[t].turnStage = "null",
               !.players[t].drawnCardId = NoCard,
               !.players[t].tookDiscardId = NoCard,
               !.turnIndex = nextActiveIndex(s, t)]

-----------------------------------------------------------------------------
(* Dealing *)

\* refillStockFromDiscard with the top discard shuffled into the stock as well.
refillStockKeepsTop(s) ==
  IF Len(s.discard) <= 1 THEN [ok |-> FALSE, state |-> s]
  ELSE [ok |-> TRUE,
        state |-> logPush([s EXCEPT !.stock = shuffleInPlace(s.discard, s.seed),
                                    !.seed = s.seed + 1,
                                    !.discard = <<last(s.discard)>>],
                          "Stock exhausted", NoId)]

\* refillStockFromDiscard shuffling under state.seed without moving it on.
refillStockSameSeed(s) ==
  IF Len(s.discard) <= 1 THEN [ok |-> FALSE, state |-> s]
  ELSE [ok |-> TRUE,
        state |-> logPush([s EXCEPT !.stock = shuffleInPlace(front(s.discard), s.seed),
                                    !.discard = <<last(s.discard)>>],
                          "Stock exhausted", NoId)]

refillStockFromDiscard(s) ==
  IF Len(s.discard) <= 1 THEN [ok |-> FALSE, state |-> s]
  ELSE [ok |-> TRUE,
        state |-> logPush([s EXCEPT !.stock = shuffleInPlace(front(s.discard), s.seed),
                                    !.seed = s.seed + 1,
                                    !.discard = <<last(s.discard)>>],
                          "Stock exhausted", NoId)]

\* The seats startHand deals to in one round: players.length successive
\* nextActiveIndex results, starting from the dealer.
RECURSIVE dealOrder(_, _, _)
dealOrder(s, idx, k) ==
  IF k = 0 THEN <<>>
  ELSE LET nx == nextActiveIndex(s, idx) IN <<nx>> \o dealOrder(s, nx, k - 1)

\* One stock.pop() into the hand of each seat of `targets`, in order.  (The
\* deal throws on an empty stock only with more than 17 seats.)
RECURSIVE dealCards(_, _)
dealCards(s, targets) ==
  IF targets = <<>> THEN s
  ELSE dealCards([s EXCEPT !.stock = pop(@),
                           !.players[Head(targets)].hand = Append(@, last(s.stock))],
                 Tail(targets))

\* dealt31 with the life loss but without the phase change that ends the hand.
dealt31PlaysOn(s) ==
  LET winners == {i \in Seats(s) : ~s.players[i].eliminated /\ hasExact31(s.players[i].hand, s.rules)}
      losers == {i \in Seats(s) : ~s.players[i].eliminated /\ i \notin winners}
  IN IF winners = {} THEN s
     ELSE finishElimsAndMaybeGameOver(loseLivesAll(logPush(s, "Dealt 31", NoId), losers, 1))

\* The "Dealt 31 auto-declare" block of startHand.
dealt31(s) ==
  LET winners == {i \in Seats(s) : ~s.players[i].eliminated /\ hasExact31(s.players[i].hand, s.rules)}
      losers == {i \in Seats(s) : ~s.players[i].eliminated /\ i \notin winners}
  IN IF winners = {} THEN s
     ELSE settlePhase(finishElimsAndMaybeGameOver(loseLivesAll(logPush(s, "Dealt 31", NoId), losers, 1)))

startHand(s) ==
  LET s1 == [s EXCEPT !.phase = "PLAYING", !.knockedBy = NoId, !.finalTurnsLeft = 0,
                      !.stock = deckOf(s.seed), !.seed = s.seed + 1,
                      !.discard = <<>>, !.lastActionLog = <<>>,
                      !.players = [i \in Seats(s) |-> [s.players[i] EXCEPT !.hand = <<>>]]]
      order == dealOrder(s1, s1.dealerIndex, NumPlayers(s1))
      s2 == dealCards(s1, order \o order \o order)
      s3 == [s2 EXCEPT !.discard = <<last(s2.stock)>>, !.stock = pop(s2.stock),
                       !.turnIndex = nextActiveIndex(s2, s2.dealerIndex)]
  IN dealt31(s3)

-----------------------------------------------------------------------------
(* Showdown *)

\* state.players.find(p => p.id === id), as a seat
seatOf(s, id) == CHOOSE i \in Seats(s) : s.players[i].id = id

\* loseLives(k, 2) for a sole-lowest knocker, loseLives(lp, 1) otherwise
\* showdownLoss charging a sole-lowest knocker the ordinary single life.
showdownLossOne(knockerIsLowest) == 1

\* showdownLosers with a knocker who ties for lowest charged like the rest.
showdownLosersAll(lowest, knockerId) == lowest

\* The ids that lose lives at a showdown: a sole-lowest knocker alone, the
\* other lowest players when the knocker ties with them, else all the lowest.
showdownLosers(lowest, knockerId) ==
  IF knockerId # NoId /\ lowest = {knockerId} THEN {knockerId}
  ELSE IF knockerId # NoId /\ knockerId \in lowest THEN lowest \ {knockerId}
  ELSE lowest

showdownLoss(knockerIsLowest) == IF knockerIsLowest THEN 2 ELSE 1

RECURSIVE sortedSeq(_)
sortedSeq(S) ==
  IF S = {} THEN <<>>
  ELSE LET m == CHOOSE x \in S : \A y \in S : x <= y IN <<m>> \o sortedSeq(S \ {m})

\* One log line per losing player, in seat order.
loserLog(s, losers, msg) ==
  LET q == sortedSeq({seatOf(s, id) : id \in losers})
  IN [k \in 1 .. Len(q) |-> LogEntry(msg, s.players[q[k]].id)]

scoreShowdown(s) ==
  LET knockerId == s.knockedBy
      active == activePlayers(s)
      v(i) == handValue(s.players[i].hand, s.rules)
      lowest == {s.players[i].id : i \in {a \in active : \A b \in active : v(a) <= v(b)}}
      knockerIsLowest == knockerId # NoId /\ lowest = {knockerId}
      includesKnocker == knockerId # NoId /\ knockerId \in lowest
      s1 == logPush(s, "Showdown", NoId)
      losers == showdownLosers(lowest, knockerId)
      loss == showdownLoss(knockerIsLowest)
      s2 == loseLivesAll(s1, {seatOf(s1, id) : id \in losers}, loss)
      msg == IF knockerIsLowest THEN "knocked and is the sole lowest: loses 2 lives"
             ELSE IF includesKnocker THEN "ties lowest with knocker: loses 1 life"
             ELSE "is lowest: loses 1 life"
      s3 == [s2 EXCEPT !.lastActionLog = @ \o loserLog(s, losers, msg)]
  IN settlePhase(finishElimsAndMaybeGameOver(s3))

-----------------------------------------------------------------------------
(* Actions *)

Rejected(s, error) == [state |-> s, ok |-> FALSE, error |-> error]
Accepted(s) == [state |-> s, ok |-> TRUE, error |-> ""]

Action(type) == [type |-> type, cardId |-> NoCard]
Discard(cardId) == [type |-> "DISCARD", cardId |-> cardId]

canKnock(s, playerId) ==
  IF s.phase # "PLAYING" THEN FALSE
  ELSE IF s.players[s.turnIndex].id # playerId THEN FALSE
  ELSE IF s.knockedBy # NoId THEN FALSE
  ELSE IF s.rules.allowKnockAnyScore THEN TRUE
  ELSE s.rules.knockMinScore # NoValue
       /\ handValue(s.players[s.turnIndex].hand, s.rules) >= s.rules.knockMinScore

applyKnock(s, playerId) ==
  LET p == s.players[s.turnIndex]
  IN IF p.turnStage # "START" THEN Rejected(s, "You can only knock at the start of your turn.")
     ELSE IF ~canKnock(s, playerId) THEN Rejected(s, "Knock not allowed.")
     ELSE Accepted(advanceTurn(logPush([s EXCEPT !.knockedBy = playerId,
                                                 !.phase = "KNOCKED",
                                                 !.finalTurnsLeft = Cardinality(activePlayers(s)) - 1],
                                       "knocks", p.id)))

applyDrawStock(s) ==
  LET t == s.turnIndex
      r == IF Len(s.stock) = 0 THEN refillStockFromDiscard(s) ELSE [ok |-> TRUE, state |-> s]
      s1 == r.state
  IN IF s.players[t].turnStage # "START" THEN Rejected(s, "You already drew.")
     ELSE IF ~r.ok THEN Rejected(s1, "No cards left to draw.")
     ELSE IF Len(s1.stock) = 0 THEN Rejected(s1, "No cards left to draw.")
     ELSE LET c == last(s1.stock)
          IN Accepted(logPush([s1 EXCEPT !.stock = pop(@),
                                         !.players[t].hand = Append(@, c),
                                         !.players[t].drawnCardId = c,
                                         !.players[t].turnStage = "DREW"],
                              "draws from stock", s.players[t].id))

applyDrawDiscard(s) ==
  LET t == s.turnIndex
  IN IF s.players[t].turnStage # "START" THEN Rejected(s, "You already drew.")
     ELSE IF Len(s.discard) = 0 THEN Rejected(s, "Discard is empty.")
     ELSE LET c == last(s.discard)
          IN Accepted(logPush([s EXCEPT !.discard = pop(@),
                                        !.players[t].hand = Append(@, c),
                                        !.players[t].tookDiscardId = c,
                                        !.players[t].turnStage = "DREW"],
                              "takes the top discard", s.players[t].id))

\* hand.splice(idx, 1) at the first index holding cardId
spliceCard(hand, cardId) ==
  LET idx == CHOOSE i \in 1 .. Len(hand) : hand[i] = cardId /\ \A j \in 1 .. (i - 1) : hand[j] # cardId
  IN SubSeq(hand, 1, idx - 1) \o SubSeq(hand, idx + 1, Len(hand))

\* declare31 without the skip of the declaring player in the life-loss loop.
declare31ChargesAll(s) ==
  LET t == s.turnIndex
      others == {i \in Seats(s) : ~s.players[i].eliminated}
      s1 == logPush(s, "declares 31", s.players[t].id)
  IN resetTurnStages(settlePhase(finishElimsAndMaybeGameOver(loseLivesAll(s1, others, 1))))

\* The "Immediate 31 declaration after discard" block.
declare31(s) ==
  LET t == s.turnIndex
      others == {i \in Seats(s) : ~s.players[i].eliminated /\ s.players[i].id # s.players[t].id}
      s1 == logPush(s, "declares 31", s.players[t].id)
  IN resetTurnStages(settlePhase(finishElimsAndMaybeGameOver(loseLivesAll(s1, others, 1))))

\* What follows an accepted discard that is not a 31.
afterDiscard(s) ==
  LET s1 == logPush(s, "discards", s.players[s.turnIndex].id)
      s2 == [s1 EXCEPT !.finalTurnsLeft = @ - 1]
  IN IF s1.phase = "KNOCKED"
     THEN IF s2.finalTurnsLeft <= 0
          THEN resetTurnStages(scoreShowdown([s2 EXCEPT !.phase = "SHOWDOWN"]))
          ELSE advanceTurn(s2)
     ELSE advanceTurn(s1)

applyDiscard(s, cardId) ==
  LET t == s.turnIndex
      p == s.players[t]
      s1 == [s EXCEPT !.players[t].hand = spliceCard(p.hand, cardId),
                      !.discard = Append(@, cardId)]
  IN IF p.turnStage # "DREW" THEN Rejected(s, "You must draw first.")
     ELSE IF cardId \notin Range(p.hand) THEN Rejected(s, "You don't have that card.")
     ELSE IF p.tookDiscardId # NoCard /\ p.tookDiscardId = cardId
          THEN Rejected(s, "Illegal: cannot discard the same card you took from discard.")
     ELSE IF Len(s1.players[t].hand) # 3 THEN Rejected(s1, "Internal error: hand size not 3.")
     ELSE IF hasExact31(s1.players[t].hand, s1.rules) THEN Accepted(declare31(s1))
     ELSE Accepted(afterDiscard(s1))

applyAction(s, playerId, action) ==
  LET t == s.turnIndex
      s0 == IF s.players[t].turnStage = "null" THEN [s EXCEPT !.players[t].turnStage = "START"] ELSE s
  IN IF s.phase # "PLAYING" /\ s.phase # "KNOCKED" THEN Rejected(s, "Hand is not active.")
     ELSE IF s.players[t].id # playerId THEN Rejected(s, "Not your turn.")
     ELSE IF s.players[t].eliminated THEN Rejected(s, "You are eliminated.")
     ELSE IF action.type = "KNOCK" THEN applyKnock(s0, playerId)
     ELSE IF action.type = "DRAW_STOCK" THEN applyDrawStock(s0)
     ELSE IF action.type = "DRAW_DISCARD" THEN applyDrawDiscard(s0)
     ELSE IF action.type = "DISCARD" THEN applyDiscard(s0, action.cardId)
     ELSE Rejected(s0, "Unknown action.")

-----------------------------------------------------------------------------
(* Views.  `undefined` and `null` are written Undefined (for a hand),      *)
(* NoValue, NoCard and NoId.                                                *)

Undefined == <<NoCard>>

\* makeClientView's revealAll with every phase counted as a reveal.
revealAlways(s) == TRUE

revealAll(s) == s.phase \in {"SHOWDOWN", "HAND_OVER", "GAME_OVER"}

\* state.lastActionLog.slice(-12)
LogTail == 12
logSlice(log) == IF Len(log) <= LogTail THEN log ELSE SubSeq(log, Len(log) - LogTail + 1, Len(log))

\* one entry of the view's players list
seatView(s, p, viewerId) ==
  LET revealThis == revealAll(s) \/ (viewerId # NoId /\ p.id = viewerId)
  IN [id |-> p.id, type |-> p.type, lives |-> p.lives, eliminated |-> p.eliminated,
      handCount |-> Len(p.hand),
      revealedHand |-> IF revealThis THEN p.hand ELSE Undefined,
      revealedValue |-> IF revealAll(s) THEN handValue(p.hand, s.rules) ELSE NoValue]

\* the view's `you`
youView(s, viewerId) ==
  IF viewerId \in {s.players[i].id : i \in Seats(s)}
  THEN LET you == s.players[seatOf(s, viewerId)]
       IN [id |-> you.id, hand |-> you.hand,
           canAct |-> s.phase \in {"PLAYING", "KNOCKED"} /\ s.players[s.turnIndex].id = you.id,
           canKnock |-> canKnock(s, you.id),
           mustDiscard |-> you.turnStage = "DREW"]
  ELSE [id |-> NoId]

makeClientView(s, viewerId) ==
  [rules |-> s.rules,
   players |-> [i \in Seats(s) |-> seatView(s, s.players[i], viewerId)],
   dealerIndex |-> s.dealerIndex,
   turnPlayerId |-> s.players[s.turnIndex].id,
   phase |-> s.phase,
   knockedBy |-> s.knockedBy,
   stockCount |-> Len(s.stock),
   topDiscard |-> IF Len(s.discard) > 0 THEN last(s.discard) ELSE NoCard,
   you |-> youView(s, viewerId),
   log |-> logSlice(s.lastActionLog)]

-----------------------------------------------------------------------------
(* Room operations *)

\* createRoom's baseRules with the caller's overrides applied.
Rules(startingLives, allowKnockAnyScore, knockMinScore, threeOfKindValue) ==
  [startingLives |-> startingLives, allowKnockAnyScore |-> allowKnockAnyScore,
   knockMinScore |-> knockMinScore, threeOfKindValue |-> threeOfKindValue]

createRoom(cpuCount, rules, seed) ==
  startHand([rules |-> rules,
             players |-> [i \in 0 .. cpuCount |->
                            [makePlayer(i, IF i = 0 THEN "HUMAN" ELSE "CPU") EXCEPT !.lives = rules.startingLives]],
             dealerIndex |-> 0, turnIndex |-> 0, phase |-> "PLAYING",
             knockedBy |-> NoId, finalTurnsLeft |-> 0,
             stock |-> <<>>, discard |-> <<>>, lastActionLog |-> <<>>,
             winnerId |-> NoId, seed |-> seed])

addHuman(s) ==
  LET n == NumPlayers(s)
      p == [makePlayer(n, "HUMAN") EXCEPT !.lives = s.rules.startingLives]
      s1 == [s EXCEPT !.players = [i \in 0 .. n |-> IF i < n THEN s.players[i] ELSE p]]
  IN startHand([logPush(s1, "joined. Restarting hand.", n) EXCEPT !.dealerIndex = 0])

\* nextHand without the rotation of the dealer.
nextHandSameDealer(s) ==
  IF s.phase # "HAND_OVER" THEN s
  ELSE startHand(s)

nextHand(s) ==
  IF s.phase # "HAND_OVER" THEN s
  ELSE startHand([s EXCEPT !.dealerIndex = nextActiveIndex(s, s.dealerIndex)])

rematch(s) ==
  startHand([s EXCEPT !.players = [i \in Seats(s) |->
                         [s.players[i] EXCEPT !.lives = s.rules.startingLives, !.eliminated = FALSE, !.hand = <<>>]],
                      !.winnerId = NoId, !.phase = "PLAYING", !.knockedBy = NoId,
                      !.finalTurnsLeft = 0, !.dealerIndex = 0, !.turnIndex = 0,
                      !.lastActionLog = <<LogEntry("Rematch started. Lives reset.", NoId)>>])

-----------------------------------------------------------------------------
(* CPU policy.  The outcomes of Math.random() are the parameters rTake     *)
(* (Math.random() < takeDiscardBias), rEasy (Math.random() < 0.6) and rIdx *)
(* (Math.floor(Math.random() * hand4.length)).                             *)

Difficulties == {"easy", "medium", "hard"}

\* What the dice can show: only the easy and medium tiers roll for the take,
\* only the easy tier rolls for the discard, over the n cards it then holds.
RandomTake(diff) == IF diff = "hard" THEN {FALSE} ELSE BOOLEAN
RandomEasy(diff) == IF diff = "easy" THEN BOOLEAN ELSE {FALSE}
RandomIndex(diff, n) == IF diff = "easy" THEN 0 .. (n - 1) ELSE {0}

knockThreshold(diff) ==
  IF diff = "easy" THEN 28 * Hundred ELSE IF diff = "medium" THEN 27 * Hundred ELSE 25 * Hundred

\* cards.filter(x => x.id !== c)
without(cards, c) == SelectSeq(cards, LAMBDA x : x # c)

bestValueAfterAdding(hand, add, rules) ==
  LET cards == Append(hand, add)
  IN SeqMax([k \in 1 .. Len(cards) |-> handValue(without(cards, cards[k]), rules)])

\* The first card of hand4 whose removal scores strictly highest; scores[k] is
\* the score of the hand without hand4[k].
firstBest(hand4, scores) ==
  LET best == SeqMax(scores)
      k == CHOOSE i \in 1 .. Len(hand4) : scores[i] = best /\ \A j \in 1 .. (i - 1) : scores[j] # best
  IN hand4[k]

chooseBestDiscard(hand4, rules) ==
  firstBest(hand4, [k \in 1 .. Len(hand4) |-> handValue(without(hand4, hand4[k]), rules)])

chooseDiscardEasy(hand4, rules, rEasy, rIdx) ==
  IF rEasy THEN hand4[rIdx + 1] ELSE chooseBestDiscard(hand4, rules)

chooseBestDiscardHard(hand4, rules) ==
  LET three(c) == without(hand4, c)
      maxSuit(c) == SeqMax([s \in 1 .. 4 |-> Cardinality({k \in 1 .. Len(three(c)) : cardSuit(three(c)[k]) = s - 1})])
      score(c) == handValue(three(c), rules) + (IF maxSuit(c) >= 2 THEN 15 ELSE 0)
  IN firstBest(hand4, [k \in 1 .. Len(hand4) |-> score(hand4[k])])

maybeRunCpuTurn(s, diff, rTake, rEasy, rIdx) ==
  LET t == s.turnIndex
      p == s.players[t]
      currentValue == handValue(p.hand, s.rules)
      improves == Len(s.discard) > 0 /\ bestValueAfterAdding(p.hand, last(s.discard), s.rules) > currentValue
      takeDiscard == IF diff = "hard" THEN improves ELSE improves /\ rTake
      r1 == applyAction(s, p.id, Action(IF takeDiscard THEN "DRAW_DISCARD" ELSE "DRAW_STOCK"))
      hand4 == r1.state.players[t].hand
      discardId == IF diff = "easy" THEN chooseDiscardEasy(hand4, s.rules, rEasy, rIdx)
                   ELSE IF diff = "medium" THEN chooseBestDiscard(hand4, s.rules)
                   ELSE chooseBestDiscardHard(hand4, s.rules)
  IN IF s.phase # "PLAYING" /\ s.phase # "KNOCKED" THEN s
     ELSE IF p.eliminated \/ p.type # "CPU" THEN s
     ELSE IF currentValue >= knockThreshold(diff) THEN applyAction(s, p.id, Action("KNOCK")).state
     ELSE IF ~r1.ok THEN r1.state
     ELSE applyAction(r1.state, p.id, Discard(discardId)).state

-----------------------------------------------------------------------------
(* The server: one action per socket handler, and runCpuLoop one iteration *)
(* at a time.  A handler runs only between handlers (pc = "idle"); every   *)
(* handler that changes the room ends by entering runCpuLoop.              *)

LoopCap == 50

Active(s) == s.phase \in {"PLAYING", "KNOCKED"}
Acting(s) == s.players[s.turnIndex]

\* createRoom's default startingLives, and a knockMinScore (in hundredths)
\* that some dealt hands reach and others do not.
DefaultLives == 3
KnockMin == 20 * Hundred

RuleSets == {Rules(l, TRUE, NoValue, 3050) : l \in 1 .. MaxLives}

\* The rooms "room:create" is asked for: the difficulty matters only to a
\* room with CPU seats (a room without any gets the server's default), and
\* the tiers that roll dice on every turn are explored with one CPU seat.
RoomConfigs ==
  {c \in [cpuCount : 0 .. MaxCpu, diff : Difficulties] :
     /\ c.cpuCount = 0 => c.diff = "medium"
     /\ c.diff # "hard" => c.cpuCount <= 1}

\* One full turn that changes no hand: draw from the stock, discard the card
\* drawn.  drained(s) is the room after the players have taken such turns
\* until the stock ran out.
RECURSIVE drained(_)
drained(s) ==
  IF s.phase # "PLAYING" \/ Len(s.stock) = 0 THEN s
  ELSE LET id == s.players[s.turnIndex].id
           drew == applyAction(s, id, Action("DRAW_STOCK")).state
       IN drained(applyAction(drew, id, Discard(last(s.stock))).state)

\* "room:create": the handler has built the room and is about to run the
\* CPU loop.  The second disjunct starts later in the first hand of a
\* one-seat room, with the stock exhausted, so that the reshuffle of the
\* discard pile is within reach of the exploration.
Init ==
  /\ \E c \in RoomConfigs, rules \in RuleSets, seed \in Seeds :
       /\ cpuDifficulty = c.diff
       /\ \/ /\ state = createRoom(c.cpuCount, rules, seed)
             /\ dealtBy = "createRoom"
          \/ /\ c.cpuCount = 0
             /\ state = drained(createRoom(c.cpuCount, rules, seed))
             /\ dealtBy = "none"
  /\ pc = "cpu"
  /\ guard = 0
  /\ events = 0

\* A room with a single seat has no CPU turns and few choices, so it is
\* followed for SoloExtra more events than the others.
MoreEvents == events < MaxEvents + (IF NumPlayers(state) = 1 THEN SoloExtra ELSE 0)

\* The action payloads a client may send for the seat `pid`.
Payloads(pid) ==
  {Action("KNOCK"), Action("DRAW_STOCK"), Action("DRAW_DISCARD"), Action("PASS")}
    \cup {Discard(c) : c \in Range(state.players[pid].hand)
                          \cup (IF Len(state.discard) > 0 THEN {last(state.discard)} ELSE {})}

\* socket.on("act"): playerToRoom knows the host and the players who joined,
\* so only a human seat's id gets past "Unknown player."
Act(pid, action) ==
  /\ pc = "idle"
  /\ state.players[pid].type = "HUMAN"
  /\ MoreEvents
  /\ LET res == applyAction(state, state.players[pid].id, action)
     IN /\ state' = res.state
        /\ pc' = IF res.ok THEN "cpu" ELSE "idle"
        /\ events' = IF res.ok THEN events + 1 ELSE events
  /\ guard' = 0
  /\ dealtBy' = "none"
  /\ UNCHANGED cpuDifficulty

\* socket.on("hand:next")
NextHand ==
  /\ pc = "idle"
  /\ MoreEvents
  /\ state' = nextHand(state)
  /\ dealtBy' = IF state.phase = "HAND_OVER" THEN "nextHand" ELSE "none"
  /\ pc' = "cpu"
  /\ guard' = 0
  /\ events' = events + 1
  /\ UNCHANGED cpuDifficulty

\* socket.on("room:rematch")
Rematch ==
  /\ pc = "idle"
  /\ MoreEvents
  /\ state' = rematch(state)
  /\ dealtBy' = "rematch"
  /\ pc' = "cpu"
  /\ guard' = 0
  /\ events' = events + 1
  /\ UNCHANGED cpuDifficulty

\* socket.on("room:join")
Join ==
  /\ pc = "idle"
  /\ MoreEvents
  /\ NumPlayers(state) < MaxSeats
  /\ state' = addHuman(state)
  /\ dealtBy' = "addHuman"
  /\ pc' = "cpu"
  /\ guard' = 0
  /\ events' = events + 1
  /\ UNCHANGED cpuDifficulty

HandEnded(s) == s.phase \in {"HAND_OVER", "GAME_OVER", "SHOWDOWN"}

\* One evaluation of runCpuLoop's while condition and body.
CpuLoop ==
  /\ pc = "cpu"
  /\ LET current == state.players[state.turnIndex]
     IN IF guard >= LoopCap \/ HandEnded(state)
        THEN /\ pc' = "idle" /\ guard' = 0 /\ state' = state
        ELSE IF current.eliminated
        THEN /\ state' = [state EXCEPT !.turnIndex = nextActiveIndex(state, state.turnIndex)]
             /\ pc' = "cpu"
             /\ guard' = guard + 1
        ELSE IF current.type = "HUMAN"
        THEN /\ pc' = "idle" /\ guard' = 0 /\ state' = state
        ELSE \E rTake \in RandomTake(cpuDifficulty), rEasy \in RandomEasy(cpuDifficulty),
                rIdx \in RandomIndex(cpuDifficulty, Len(current.hand) + 1) :
                  LET s2 == maybeRunCpuTurn(state, cpuDifficulty, rTake, rEasy, rIdx)
                      stalled == s2.turnIndex = state.turnIndex
                  IN /\ state' = s2
                     /\ pc' = IF stalled THEN "idle" ELSE "cpu"
                     /\ guard' = IF stalled THEN 0 ELSE guard + 1
  /\ dealtBy' = "none"
  /\ UNCHANGED <<cpuDifficulty, events>>

\* "room:create" for one-CPU and CPU-less rooms with the default three lives,
\* from a seed of Seeds31, under each knock rule createRoom can be given.
RuleSets31 ==
  {Rules(DefaultLives, any, min, 3050) : any \in BOOLEAN, min \in {NoValue, KnockMin}}

Init31 ==
  /\ \E c \in RoomConfigs, rules \in RuleSets31, seed \in Seeds31 :
       /\ c.cpuCount <= 1
       /\ c.diff \in {"medium", "hard"}
       /\ cpuDifficulty = c.diff
       /\ state = createRoom(c.cpuCount, rules, seed)
  /\ dealtBy = "createRoom"
  /\ pc = "cpu"
  /\ guard = 0
  /\ events = 0

Next ==
  \/ \E pid \in Seats(state) : \E action \in Payloads(pid) : Act(pid, action)
  \/ NextHand
  \/ Rematch
  \/ Join
  \/ CpuLoop

Spec == Init /\ [][Next]_vars

Spec31 == Init31 /\ [][Next]_vars

-----------------------------------------------------------------------------
(* Turn order on its own: a table of up to MaxTable seats with any seats   *)
(* eliminated and any seat to act, and the two places that move the turn   *)
(* with nextActiveIndex outside a discard: an accepted KNOCK (advanceTurn) *)
(* and runCpuLoop stepping over an eliminated seat.                        *)

Table(n, out, turn) ==
  [rules |-> Rules(DefaultLives, TRUE, NoValue, 3050),
   players |-> [i \in 0 .. (n - 1) |->
                  [makePlayer(i, "HUMAN") EXCEPT !.eliminated = i \in out,
                                                 !.lives = IF i \in out THEN 0 ELSE DefaultLives]],
   dealerIndex |-> 0, turnIndex |-> turn, phase |-> "PLAYING",
   knockedBy |-> NoId, finalTurnsLeft |-> 0,
   stock |-> <<>>, discard |-> <<>>, lastActionLog |-> <<>>,
   winnerId |-> NoId, seed |-> 0]

InitTurn ==
  /\ \E n \in 1 .. MaxTable : \E out \in SUBSET (0 .. (n - 1)) : \E turn \in 0 .. (n - 1) :
       state = Table(n, out, turn)
  /\ cpuDifficulty = "medium"
  /\ pc = "idle"
  /\ guard = 0
  /\ events = 0
  /\ dealtBy = "none"

\* applyAction(KNOCK) by the acting player, accepted
KnockTurn ==
  /\ LET res == applyAction(state, Acting(state).id, Action("KNOCK"))
     IN res.ok /\ state' = res.state
  /\ events' = events + 1
  /\ UNCHANGED <<cpuDifficulty, pc, guard, dealtBy>>

\* runCpuLoop's step over an eliminated seat
SkipTurn ==
  /\ Active(state)
  /\ Acting(state).eliminated
  /\ guard < MaxTable
  /\ state' = [state EXCEPT !.turnIndex = nextActiveIndex(state, state.turnIndex)]
  /\ guard' = guard + 1
  /\ UNCHANGED <<cpuDifficulty, pc, events, dealtBy>>

NextTurn == KnockTurn \/ SkipTurn

SpecTurn == InitTurn /\ [][NextTurn]_vars

-----------------------------------------------------------------------------
(* The deck on its own: one-seat rooms created from the MaxSeed + 1 lowest  *)
(* and highest seeds createRoom can draw, dealt again and again by          *)
(* rematches.                                                               *)

\* Math.floor(Math.random() * 1e9) is below SeedCap
SeedCap == 1000000000
ManySeeds == (0 .. MaxSeed) \cup {SeedCap - 1 - k : k \in 0 .. MaxSeed}

InitDeck ==
  /\ \E seed \in ManySeeds : state = createRoom(0, Rules(DefaultLives, TRUE, NoValue, 3050), seed)
  /\ cpuDifficulty = "medium"
  /\ pc = "idle"
  /\ guard = 0
  /\ events = 0
  /\ dealtBy = "createRoom"

\* "room:rematch", which deals from the room's next seed
RematchDeck ==
  /\ events < MaxEvents
  /\ state' = rematch(state)
  /\ dealtBy' = "rematch"
  /\ events' = events + 1
  /\ UNCHANGED <<cpuDifficulty, pc, guard>>

NextDeck == RematchDeck

SpecDeck == InitDeck /\ [][NextDeck]_vars

-----------------------------------------------------------------------------
(* The hand-value engine on its own: a seat holding any three cards of     *)
(* HandCards in any order, with and without a three-of-a-kind value, under *)
(* a knock minimum, so that the seat's KNOCK is settled by handValue.      *)

\* The cards hands are drawn from: in every suit the MaxHandRank highest
\* ranks and the lowest.
HandCards == {c \in Cards : cardRank(c) < MaxHandRank \/ cardRank(c) = RanksPerSuit - 1}

InitHand ==
  /\ \E c1 \in HandCards : \E c2 \in HandCards \ {c1} : \E c3 \in HandCards \ {c1, c2} :
     \E tok \in {NoValue, 3050} :
       state = [Table(1, {}, 0) EXCEPT !.rules = Rules(DefaultLives, FALSE, KnockMin, tok),
                                       !.players[0].hand = <<c1, c2, c3>>]
  /\ cpuDifficulty = "medium"
  /\ pc = "idle"
  /\ guard = 0
  /\ events = 0
  /\ dealtBy = "none"

\* applyAction(KNOCK) by the seat, accepted when canKnock finds the hand's
\* value at or above the knock minimum
KnockHand ==
  /\ LET res == applyAction(state, Acting(state).id, Action("KNOCK"))
     IN res.ok /\ state' = res.state
  /\ events' = events + 1
  /\ UNCHANGED <<cpuDifficulty, pc, guard, dealtBy>>

NextHandValue == KnockHand

SpecHand == InitHand /\ [][NextHandValue]_vars

-----------------------------------------------------------------------------
(* Properties *)

HasLog(s, msg) == \E k \in 1 .. Len(s.lastActionLog) : s.lastActionLog[k].msg = msg

\* The fields of the game a rejection is said to leave alone.
Visible(s) ==
  [hands |-> [i \in Seats(s) |-> s.players[i].hand],
   lives |-> [i \in Seats(s) |-> s.players[i].lives],
   eliminated |-> [i \in Seats(s) |-> s.players[i].eliminated],
   stock |-> s.stock, discard |-> s.discard, phase |-> s.phase,
   turnIndex |-> s.turnIndex, dealerIndex |-> s.dealerIndex,
   knockedBy |-> s.knockedBy, finalTurnsLeft |-> s.finalTurnsLeft,
   winnerId |-> s.winnerId, seed |-> s.seed, log |-> s.lastActionLog]

\* C1: every applyAction call that is rejected leaves hands, lives,
\* eliminated flags, stock, discard, phase, turn, knock state, seed and log
\* as they were (stated for every payload a human seat can send between
\* handlers).
C1_RejectionsKeepState ==
  pc = "idle" =>
    \A pid \in Seats(state) : \A a \in Payloads(pid) :
      LET res == applyAction(state, state.players[pid].id, a)
      IN (state.players[pid].type = "HUMAN" /\ ~res.ok) => Visible(res.state) = Visible(state)

\* C2: right after startHand at room creation, next hand or rematch, every
\* non-eliminated player holds 3 cards, every eliminated player none, the
\* discard pile one card, and the turn is with the first non-eliminated seat
\* after the dealer.
C2_DealIsThreeEach ==
  dealtBy \in {"createRoom", "nextHand", "rematch"} =>
    /\ \A i \in Seats(state) :
         Len(state.players[i].hand) = IF state.players[i].eliminated THEN 0 ELSE 3
    /\ Len(state.discard) = 1
    /\ state.turnIndex = nextActiveIndex(state, state.dealerIndex)
    /\ ~Acting(state).eliminated

\* C3: while a hand is in play every non-eliminated player holds 3 cards
\* (read with the one exception the turn itself makes: the acting player may
\* hold a 4th card between their draw and their discard).
C3_HandsAreThree ==
  Active(state) =>
    \A i \in Seats(state) :
      ~state.players[i].eliminated =>
        \/ Len(state.players[i].hand) = 3
        \/ i = state.turnIndex /\ Len(state.players[i].hand) = 4

\* C4: runCpuLoop never returns with a non-eliminated CPU seat to act in a
\* hand that is still in play.
C4_CpuLoopHandsOver ==
  pc = "idle" =>
    ~(Active(state) /\ Acting(state).type = "CPU" /\ ~Acting(state).eliminated)

\* The acting player is at the start of a turn: a draw is accepted and a
\* discard of any held card is refused with "You must draw first."
AtTurnStart(s) ==
  LET id == Acting(s).id
  IN /\ applyAction(s, id, Action("DRAW_DISCARD")).ok
     /\ applyAction(s, id, Action("DRAW_STOCK")).ok
     /\ \A c \in Range(Acting(s).hand) : applyAction(s, id, Discard(c)).error = "You must draw first."
     /\ Acting(s).tookDiscardId = NoCard

\* C5: whenever the turn passes to a seat or a hand is dealt, and the hand is
\* in play, the acting player is in stage START with nothing carried over.
C5_TurnStartsFresh ==
  [][((state'.turnIndex # state.turnIndex \/ dealtBy' # "none") /\ Active(state'))
       => AtTurnStart(state')]_vars

\* C6: stock, discard and hands together hold each of the 52 cards once.
AllCards(s) ==
  LET seats == sortedSeq(Seats(s))
      RECURSIVE hands(_)
      hands(k) == IF k > Len(seats) THEN <<>> ELSE s.players[seats[k]].hand \o hands(k + 1)
  IN s.stock \o s.discard \o hands(1)

C6_CardsConserved ==
  /\ Len(AllCards(state)) = DeckSize
  /\ Range(AllCards(state)) = Cards

\* C6 witness: the stock ran out, was rebuilt from the discard pile, and play
\* went on to a discard.
C6_Witness ==
  /\ HasLog(state, "Stock exhausted")
  /\ Len(state.discard) >= 2
  /\ Len(state.stock) > 0

\* C7: turnIndex indexes a non-eliminated player in every phase.
C7_TurnIsOnActiveSeat == ~Acting(state).eliminated

\* C8: some player always has a life left.
C8_SomeoneAlive == \E i \in Seats(state) : state.players[i].lives > 0

\* C9: in a room of two or more seats, the phase is GAME_OVER exactly when one
\* player is left, winnerId is that player then and null in every other phase.
C9_WinnerIffGameOver ==
  NumPlayers(state) >= 2 =>
    /\ (state.phase = "GAME_OVER") = (Cardinality(activePlayers(state)) = 1)
    /\ state.phase = "GAME_OVER" => \E i \in activePlayers(state) : state.winnerId = state.players[i].id
    /\ state.phase # "GAME_OVER" => state.winnerId = NoId

\* A step that scores a showdown, and the case of C10: the knocker's hand is
\* worth strictly less than every other player's who was in the hand.
ShowdownStep == HasLog(state', "Showdown") /\ ~HasLog(state, "Showdown") /\ state.phase = "KNOCKED"
KnockerSeat == seatOf(state, state.knockedBy)
KnockerSoleLowest ==
  \A i \in activePlayers(state) \ {KnockerSeat} :
    handValue(state'.players[KnockerSeat].hand, state.rules) < handValue(state'.players[i].hand, state.rules)
OthersKeepLives(seat) == \A i \in Seats(state) \ {seat} : state'.players[i].lives = state.players[i].lives

\* C10 as stated: a sole-lowest knocker loses exactly 2 lives, nobody else any.
C10_KnockerLosesTwo ==
  [][(ShowdownStep /\ KnockerSoleLowest) =>
       /\ state'.players[KnockerSeat].lives = state.players[KnockerSeat].lives - 2
       /\ OthersKeepLives(KnockerSeat)]_vars

\* C10 amended: a sole-lowest knocker loses 2 lives, or the single life they
\* have left, and nobody else loses any.
C10_KnockerLosesTwoOrAll ==
  [][(ShowdownStep /\ KnockerSoleLowest) =>
       /\ state'.players[KnockerSeat].lives = Max2(state.players[KnockerSeat].lives - 2, 0)
       /\ OthersKeepLives(KnockerSeat)]_vars

\* C10 witness: a showdown has cost a sole-lowest knocker two lives.
C10_Witness ==
  /\ HasLog(state, "knocked and is the sole lowest: loses 2 lives")
  /\ state.knockedBy # NoId
  /\ state.players[seatOf(state, state.knockedBy)].lives = state.rules.startingLives - 2

\* The seats whose hands are worth least at the showdown of this step, and the
\* lives a seat loses in this step.
LowestSeats ==
  {i \in activePlayers(state) :
     \A j \in activePlayers(state) :
       handValue(state'.players[i].hand, state.rules) <= handValue(state'.players[j].hand, state.rules)}
LivesLost(i) == state.players[i].lives - state'.players[i].lives

\* C11: at a showdown where the knocker ties for lowest with others, each of
\* the others tied loses exactly 1 life and nobody else any; where the
\* knocker is not among the lowest, each lowest player loses exactly 1 life
\* and nobody else any.
C11_TieSparesKnocker ==
  [][ShowdownStep =>
       /\ (KnockerSeat \in LowestSeats /\ Cardinality(LowestSeats) >= 2) =>
            \A i \in Seats(state) :
              LivesLost(i) = IF i \in LowestSeats \ {KnockerSeat} THEN 1 ELSE 0
       /\ KnockerSeat \notin LowestSeats =>
            \A i \in Seats(state) : LivesLost(i) = IF i \in LowestSeats THEN 1 ELSE 0]_vars

\* C11 witness: a showdown found the knocker tied for lowest, spared the
\* knocker and charged another player.
C11_Witness ==
  /\ HasLog(state, "ties lowest with knocker: loses 1 life")
  /\ state.players[seatOf(state, state.knockedBy)].lives = state.rules.startingLives
  /\ \E i \in Seats(state) : state.players[i].lives = state.rules.startingLives - 1

\* A step inside a knocked hand (no redeal), and whether the acting player
\* completed an ordinary (non-31) discard in it.
KnockedStep == state.phase = "KNOCKED" /\ dealtBy' = "none"
DiscardLogged ==
  \E k \in (Len(state.lastActionLog) + 1) .. Len(state'.lastActionLog) :
    state'.lastActionLog[k] = LogEntry("discards", Acting(state).id)

\* C12: an accepted KNOCK with k players in the hand sets finalTurnsLeft to
\* k-1; in the knocked hand it goes down by exactly 1 on each ordinary
\* discard of a player other than the knocker and changes on nothing else;
\* the showdown is scored in the step that takes it from 1 to 0, and in no
\* other.
C12_FinalTurnsCountDown ==
  [][/\ (state.phase = "PLAYING" /\ state'.phase = "KNOCKED") =>
          state'.finalTurnsLeft = Cardinality(activePlayers(state)) - 1
     /\ KnockedStep =>
          /\ state'.finalTurnsLeft \in {state.finalTurnsLeft, state.finalTurnsLeft - 1}
          /\ (state'.finalTurnsLeft = state.finalTurnsLeft - 1)
               = (DiscardLogged /\ state.turnIndex # KnockerSeat)
          /\ ShowdownStep = (state.finalTurnsLeft = 1 /\ state'.finalTurnsLeft = 0)]_vars

\* C12 restricted to hands knocked with two or more players in them.
C12_CountDownTwoOrMore ==
  [][(KnockedStep /\ Cardinality(activePlayers(state)) >= 2) =>
          /\ state'.finalTurnsLeft \in {state.finalTurnsLeft, state.finalTurnsLeft - 1}
          /\ (state'.finalTurnsLeft = state.finalTurnsLeft - 1)
               = (DiscardLogged /\ state.turnIndex # KnockerSeat)
          /\ ShowdownStep = (state.finalTurnsLeft = 1 /\ state'.finalTurnsLeft = 0)]_vars

\* The acting player declared 31 with the discard of this step.
Declared31 ==
  /\ Active(state)
  /\ dealtBy' = "none"
  /\ \E k \in (Len(state.lastActionLog) + 1) .. Len(state'.lastActionLog) :
       state'.lastActionLog[k] = LogEntry("declares 31", Acting(state).id)

\* C13: an accepted discard that leaves the discarder at exactly 31 is never
\* treated as an ordinary discard; it ends the hand in the same step, in
\* PLAYING and KNOCKED alike: every other non-eliminated player loses exactly
\* 1 life, the discarder none, no showdown is scored, the phase is GAME_OVER
\* if one player survives and HAND_OVER otherwise, and every turn stage is
\* cleared.
C13_Discard31EndsHand ==
  [][/\ (Active(state) /\ dealtBy' = "none" /\ DiscardLogged) =>
          ~hasExact31(state'.players[state.turnIndex].hand, state.rules)
     /\ Declared31 =>
          /\ hasExact31(state'.players[state.turnIndex].hand, state.rules)
          /\ \A i \in Seats(state) :
               LivesLost(i) = IF i # state.turnIndex /\ ~state.players[i].eliminated THEN 1 ELSE 0
          /\ ~HasLog(state', "Showdown")
          /\ state'.phase = IF Cardinality(activePlayers(state')) = 1 THEN "GAME_OVER" ELSE "HAND_OVER"
          /\ \A i \in Seats(state) :
               /\ state'.players[i].turnStage = "null"
               /\ state'.players[i].tookDiscardId = NoCard
               /\ state'.players[i].drawnCardId = NoCard]_vars

\* C13 witness: in a knocked hand a discard declared 31, cost another player
\* a life and ended the hand.
C13_Witness ==
  /\ HasLog(state, "declares 31")
  /\ state.knockedBy # NoId
  /\ state.phase \in {"HAND_OVER", "GAME_OVER"}
  /\ hasExact31(Acting(state).hand, state.rules)
  /\ \E i \in Seats(state) : state.players[i].lives < state.rules.startingLives

\* Lives and elimination as a deal finds them: a rematch has reset every
\* player, a join has added a fresh one, the next hand keeps what there was.
LivesAtDeal(s, by, i) ==
  IF by = "rematch" \/ i \notin Seats(s) THEN s.rules.startingLives ELSE s.players[i].lives
OutAtDeal(s, by, i) ==
  IF by = "rematch" \/ i \notin Seats(s) THEN FALSE ELSE s.players[i].eliminated

\* What C14 says of a deal by `by` that took the room from s to s2.
Dealt31Settled(s, by, s2) ==
  LET holders == {i \in Seats(s2) : ~OutAtDeal(s, by, i) /\ hasExact31(s2.players[i].hand, s2.rules)}
  IN holders # {} =>
       /\ \A i \in Seats(s2) :
            s2.players[i].lives =
              LivesAtDeal(s, by, i) - (IF ~OutAtDeal(s, by, i) /\ i \notin holders THEN 1 ELSE 0)
       /\ s2.phase = IF Cardinality(activePlayers(s2)) = 1 THEN "GAME_OVER" ELSE "HAND_OVER"
       /\ \A i \in Seats(s2) :
            \A a \in {Action("KNOCK"), Action("DRAW_STOCK"), Action("DRAW_DISCARD")}
                       \cup {Discard(c) : c \in Range(s2.players[i].hand)} :
              ~applyAction(s2, s2.players[i].id, a).ok

\* C14: when a deal (at room creation, next hand, rematch or join) gives one
\* or more players in the hand exactly 31, the hand ends at once: every other
\* player in the hand loses exactly 1 life, the holders none, the phase is
\* GAME_OVER if one player survives and HAND_OVER otherwise, and no action is
\* accepted.
C14_Dealt31EndsHand ==
  /\ (dealtBy = "createRoom" => Dealt31Settled(state, "rematch", state))
  /\ [][dealtBy' # "none" => Dealt31Settled(state, dealtBy', state')]_vars

\* C14 witness: a deal handed out a 31 and the hand is over, the others one
\* life down.
C14_Witness ==
  /\ dealtBy # "none"
  /\ HasLog(state, "Dealt 31")
  /\ \E i \in Seats(state) : hasExact31(state.players[i].hand, state.rules)
  /\ \E i \in Seats(state) : state.players[i].lives = state.rules.startingLives - 1
  /\ state.phase = "HAND_OVER"

\* The acting player's draw was accepted in this step and their discard is
\* still to come; the message the draw logged.
DrawMsgs == {"takes the top discard", "draws from stock"}
DrewStep ==
  /\ Active(state) /\ Active(state')
  /\ dealtBy' = "none"
  /\ Len(state'.lastActionLog) > Len(state.lastActionLog)
  /\ last(state'.lastActionLog).msg \in DrawMsgs
  /\ last(state'.lastActionLog).who = Acting(state).id
  /\ Acting(state').turnStage = "DREW"

\* C15: after an accepted DRAW_DISCARD, a DISCARD of the card taken is
\* rejected and a DISCARD of any other held card is accepted; after an
\* accepted DRAW_STOCK a DISCARD of any held card, the drawn one included, is
\* accepted.
C15_DiscardAfterDraw ==
  [][DrewStep =>
       LET p == Acting(state')
           taken == last(p.hand)
           fromDiscard == last(state'.lastActionLog).msg = "takes the top discard"
       IN \A c \in Range(p.hand) :
            applyAction(state', p.id, Discard(c)).ok = ~(fromDiscard /\ c = taken)]_vars

\* runCpuLoop is about to run the turn of a CPU seat whose hand is worth its
\* knock threshold or more.
CpuAtThreshold ==
  /\ pc = "cpu" /\ guard < LoopCap
  /\ Active(state)
  /\ Acting(state).type = "CPU" /\ ~Acting(state).eliminated
  /\ handValue(Acting(state).hand, state.rules) >= knockThreshold(cpuDifficulty)
TurnCompleted ==
  \E k \in (Len(state.lastActionLog) + 1) .. Len(state'.lastActionLog) :
    /\ state'.lastActionLog[k].msg \in {"discards", "declares 31"}
    /\ state'.lastActionLog[k].who = Acting(state).id

\* C16: a CPU at or above its knock threshold knocks when the knock is legal,
\* and otherwise (the hand is already knocked, or the rules disallow the
\* knock) draws and discards, completing its turn.
C16_CpuPlaysOnWhenKnockIllegal ==
  [][CpuAtThreshold =>
       IF canKnock(state, Acting(state).id)
       THEN state'.knockedBy = Acting(state).id
       ELSE state'.knockedBy = state.knockedBy /\ TurnCompleted]_vars

\* C17: every player has eliminated <=> lives = 0 and 0 <= lives <=
\* startingLives; short of a rematch an eliminated player's lives and flag
\* never change again, and no turn advance and no deal makes them the acting
\* seat.
C17_EliminatedStayOut ==
  /\ [](\A i \in Seats(state) :
          /\ state.players[i].eliminated = (state.players[i].lives = 0)
          /\ state.players[i].lives \in 0 .. state.rules.startingLives)
  /\ [][dealtBy' # "rematch" =>
          \A i \in Seats(state) :
            state.players[i].eliminated =>
              /\ state'.players[i].lives = state.players[i].lives
              /\ state'.players[i].eliminated
              /\ (state'.turnIndex # state.turnIndex \/ dealtBy' # "none") => state'.turnIndex # i]_vars

\* The conditions C18 gives for a KNOCK by the seat pid, and what the call
\* does to the state s.
KnockConditions(s, pid) ==
  /\ s.phase = "PLAYING"
  /\ pid = s.turnIndex
  /\ s.players[pid].turnStage \in {"null", "START"}
  /\ s.knockedBy = NoId
  /\ \/ s.rules.allowKnockAnyScore
     \/ /\ s.rules.knockMinScore # NoValue
        /\ handValue(s.players[pid].hand, s.rules) >= s.rules.knockMinScore
KnockEffect(s, pid, s2) ==
  /\ s2.knockedBy = s.players[pid].id
  /\ s2.phase = "KNOCKED"
  /\ s2.turnIndex = nextActiveIndex(s, pid)
  /\ \A i \in Seats(s) : s2.players[i].hand = s.players[i].hand

\* C18: KNOCK is accepted exactly under KnockConditions and then sets
\* knockedBy and the phase and advances the turn without touching a hand;
\* within a hand knockedBy is set at most once, on the way from PLAYING to
\* KNOCKED, and stays as set until the next deal.
C18_KnockRule ==
  /\ [](\A pid \in Seats(state) :
          LET res == applyAction(state, state.players[pid].id, Action("KNOCK"))
          IN /\ res.ok = KnockConditions(state, pid)
             /\ res.ok => KnockEffect(state, pid, res.state))
  /\ [][dealtBy' = "none" =>
          /\ state.knockedBy # NoId => state'.knockedBy = state.knockedBy
          /\ state'.knockedBy # state.knockedBy =>
               state.phase = "PLAYING" /\ state'.phase = "KNOCKED"]_vars

\* The first non-eliminated seat strictly after `from` in cyclic seat order,
\* `from` itself coming last.
CyclicDist(s, from, j) == IF j > from THEN j - from ELSE j - from + NumPlayers(s)
FirstActiveAfter(s, from) ==
  CHOOSE j \in activePlayers(s) :
    \A k \in activePlayers(s) : CyclicDist(s, from, j) <= CyclicDist(s, from, k)

\* C19: with at least one seat active, nextActiveIndex gives from every start
\* seat the first non-eliminated seat strictly after it in cyclic order (the
\* start seat itself only if it is the one active seat), and every turn
\* advance lands there.
C19_NextActiveIsFirstAfter ==
  /\ [](activePlayers(state) # {} =>
          \A from \in Seats(state) :
            /\ nextActiveIndex(state, from) = FirstActiveAfter(state, from)
            /\ nextActiveIndex(state, from) = from => activePlayers(state) = {from})
  /\ [][activePlayers(state) # {} =>
          state'.turnIndex = FirstActiveAfter(state, state.turnIndex)]_vars

\* C19 witness: a knock passed the turn on, past the last seat and over an
\* eliminated seat.
C19_Witness ==
  /\ state.knockedBy # NoId
  /\ state.turnIndex < seatOf(state, state.knockedBy)
  /\ \E j \in Seats(state) :
       /\ state.players[j].eliminated
       /\ j > seatOf(state, state.knockedBy) \/ j < state.turnIndex
  /\ ~Acting(state).eliminated

\* A fresh deal took the room from s to s2: the next seed's deck is out, one
\* card of it on the discard pile, and no knock stands.
Redealt(s, s2) ==
  /\ s2.seed = s.seed + 1
  /\ Len(AllCards(s2)) = DeckSize
  /\ Range(AllCards(s2)) = Range(deckOf(s.seed))
  /\ Len(s2.discard) = 1
  /\ s2.knockedBy = NoId
  /\ s2.finalTurnsLeft = 0

\* The dealer after `from`: the next non-eliminated seat in cyclic order, and
\* `from` itself when no other seat is non-eliminated.
DealerAfter(s, from) ==
  IF activePlayers(s) \ {from} = {} THEN from ELSE FirstActiveAfter(s, from)

\* The seats a deal from s to s2 has handed exactly 31.
Holders31(s, s2) ==
  {i \in Seats(s) : ~s.players[i].eliminated /\ hasExact31(s2.players[i].hand, s2.rules)}

\* C20 as stated: the next-hand operation changes the state only in
\* HAND_OVER; it then moves the dealer to the next non-eliminated seat after
\* the previous dealer, redeals, and keeps every player's lives and
\* eliminated flag; in every other phase it leaves the state unchanged.
C20_NextHandKeepsLives ==
  [][NextHand =>
       IF state.phase = "HAND_OVER"
       THEN /\ state'.dealerIndex = FirstActiveAfter(state, state.dealerIndex)
            /\ ~state'.players[state'.dealerIndex].eliminated
            /\ Redealt(state, state')
            /\ \A i \in Seats(state) :
                 /\ state'.players[i].lives = state.players[i].lives
                 /\ state'.players[i].eliminated = state.players[i].eliminated
       ELSE state' = state]_vars

\* C20 amended: as stated, but the dealer stays where it is when no other
\* seat is non-eliminated, and lives and eliminated flags are kept only when
\* the new deal hands nobody exactly 31; when it does, each non-eliminated
\* player without 31 loses 1 life and is eliminated at 0.
C20_NextHandKeepsLivesBut31 ==
  [][NextHand =>
       IF state.phase = "HAND_OVER"
       THEN /\ state'.dealerIndex = DealerAfter(state, state.dealerIndex)
            /\ Redealt(state, state')
            /\ Seats(state') = Seats(state)
            /\ \A i \in Seats(state) :
                 LET hit == /\ Holders31(state, state') # {}
                            /\ ~state.players[i].eliminated
                            /\ i \notin Holders31(state, state')
                 IN /\ state'.players[i].lives = state.players[i].lives - (IF hit THEN 1 ELSE 0)
                    /\ state'.players[i].eliminated =
                         (state.players[i].eliminated \/ state'.players[i].lives <= 0)
       ELSE state' = state]_vars

\* C20 witness: the next hand was dealt from HAND_OVER by a new dealer, and
\* the deal handed out a 31 that cost a player a life.
C20_Witness ==
  /\ dealtBy = "nextHand"
  /\ NumPlayers(state) >= 2
  /\ state.dealerIndex # 0
  /\ HasLog(state, "Dealt 31")
  /\ \E i \in Seats(state) : hasExact31(state.players[i].hand, state.rules)

\* Lives, eliminated flags and the winner are the same in s2 as in s.
SameStandings(s, s2) ==
  /\ Seats(s2) = Seats(s)
  /\ \A i \in Seats(s) :
       /\ s2.players[i].lives = s.players[i].lives
       /\ s2.players[i].eliminated = s.players[i].eliminated
  /\ s2.winnerId = s.winnerId

\* What a rematch leaves behind.
RematchReset(s, s2) ==
  /\ \A i \in Seats(s2) :
       /\ s2.players[i].lives = s.rules.startingLives
       /\ ~s2.players[i].eliminated
  /\ s2.winnerId = NoId
  /\ s2.dealerIndex = 0
  /\ Redealt(s, s2)

\* C21: GAME_OVER is left by a rematch only.  Every player action is rejected
\* there with "Hand is not active.", and every other step keeps the phase,
\* the lives, the eliminated flags and winnerId; a rematch resets every
\* player to startingLives and non-eliminated, clears winnerId, sets the
\* dealer to seat 0 and redeals.
C21_GameOverIsTerminal ==
  /\ [](state.phase = "GAME_OVER" =>
          \A pid \in Seats(state) : \A action \in Payloads(pid) :
            LET res == applyAction(state, state.players[pid].id, action)
            IN ~res.ok /\ res.error = "Hand is not active." /\ res.state = state)
  /\ [][state.phase = "GAME_OVER" =>
          IF dealtBy' = "rematch"
          THEN RematchReset(state, state')
          ELSE state'.phase = "GAME_OVER" /\ SameStandings(state, state')]_vars

\* C21 without the requests the claim does not name: a step from GAME_OVER
\* that is neither a rematch nor a join keeps phase and standings.
C21_GameOverHoldsButJoin ==
  [][(state.phase = "GAME_OVER" /\ dealtBy' \notin {"rematch", "addHuman"}) =>
       state'.phase = "GAME_OVER" /\ SameStandings(state, state')]_vars

\* A rematch does what C21 says of it whenever its deal hands nobody 31.
C21_RematchResets ==
  [][(dealtBy' = "rematch" /\ ~HasLog(state', "Dealt 31")) => RematchReset(state, state')]_vars

\* The viewers of a room: its seats and the spectator.
Viewers(s) == {s.players[i].id : i \in Seats(s)} \cup {NoId}

\* The cards a viewer is not shown while the hand is in play: every card but
\* their own hand and the top of the discard pile.
HiddenFrom(s, viewerId) ==
  Cards \ ((IF viewerId = NoId THEN {} ELSE Range(s.players[seatOf(s, viewerId)].hand))
            \cup (IF Len(s.discard) > 0 THEN {last(s.discard)} ELSE {}))

\* s with the cards c1 and c2 exchanged wherever they lie.
SwapCard(c, c1, c2) == IF c = c1 THEN c2 ELSE IF c = c2 THEN c1 ELSE c
SwapIn(q, c1, c2) == [k \in 1 .. Len(q) |-> SwapCard(q[k], c1, c2)]
SwapCards(s, c1, c2) ==
  [s EXCEPT !.stock = SwapIn(s.stock, c1, c2),
            !.discard = SwapIn(s.discard, c1, c2),
            !.players = [i \in Seats(s) |->
                           [s.players[i] EXCEPT !.hand = SwapIn(s.players[i].hand, c1, c2),
                                                !.drawnCardId = SwapCard(s.players[i].drawnCardId, c1, c2),
                                                !.tookDiscardId = SwapCard(s.players[i].tookDiscardId, c1, c2)]]]

\* s with every card the viewer is not shown blanked out.
Blank(q, hidden) == [k \in 1 .. Len(q) |-> IF q[k] \in hidden THEN NoCard ELSE q[k]]
Masked(s, viewerId) ==
  LET hidden == HiddenFrom(s, viewerId)
  IN [s EXCEPT !.stock = Blank(s.stock, hidden),
               !.discard = Blank(s.discard, hidden),
               !.players = [i \in Seats(s) |->
                              [s.players[i] EXCEPT !.hand = Blank(s.players[i].hand, hidden)]]]

\* A few hidden cards of each kind: one from every other hand, the ends of
\* the stock, the bottom of the discard pile.
HiddenSample(s, viewerId) ==
  HiddenFrom(s, viewerId) \cap
    ({s.players[i].hand[1] : i \in {j \in Seats(s) : Len(s.players[j].hand) > 0}}
       \cup (IF Len(s.stock) > 0 THEN {s.stock[1], last(s.stock)} ELSE {})
       \cup (IF Len(s.discard) > 0 THEN {s.discard[1]} ELSE {}))

\* C22: while a hand is in play the view made for a viewer is the same for
\* two states that differ only in other seats' cards, the stock order and the
\* discard cards below the top; it shows no hand or value of another seat,
\* and the spectator's view shows no hand at all.
C22_ViewHidesOthersCards ==
  Active(state) =>
    \A v \in Viewers(state) :
      LET view == makeClientView(state, v)
      IN /\ \A i \in Seats(state) :
              /\ state.players[i].id # v => view.players[i].revealedHand = Undefined
              /\ view.players[i].revealedValue = NoValue
         /\ v = NoId => view.you.id = NoId
         /\ makeClientView(Masked(state, v), v) = view
         /\ \A c1, c2 \in HiddenSample(state, v) :
              makeClientView(SwapCards(state, c1, c2), v) = view

\* C22 witness: a hand in play with a held card, a stock card and a buried
\* discard that a seated viewer is not shown, where exchanging two of them
\* gives another state.
C22_Witness ==
  /\ Active(state)
  /\ Len(state.discard) >= 2
  /\ Len(state.stock) >= 2
  /\ \E v \in Seats(state) : \E i \in Seats(state) \ {v} :
       /\ Len(state.players[i].hand) >= 3
       /\ Len(state.players[v].hand) >= 3
       /\ makeClientView(state, v).players[i].revealedHand = Undefined
       /\ makeClientView(state, v).you.hand = state.players[v].hand
       /\ {state.players[i].hand[1], state.stock[1], state.discard[1]} \subseteq HiddenSample(state, v)
       /\ SwapCards(state, state.players[i].hand[1], state.discard[1]) # state

\* The six orderings of a 3-card hand.
Orderings(hand) ==
  {<<hand[a], hand[b], hand[c]>> : a, b, c \in 1 .. 3} \cap
  {q \in [1 .. 3 -> Range(hand)] : Range(q) = Range(hand)}

\* The value of a card and of a hand as the rules of the game give them:
\* A=11, K/Q/J=10, numerals at face value; the largest sum of cards of one
\* suit, or the largest card if that is more.
CardPoints(c) ==
  LET r == cardRank(c)
  IN Hundred * (IF r = 0 THEN 11 ELSE IF r \in 1 .. 4 THEN 10 ELSE 14 - r)
SetSum(S) ==
  LET RECURSIVE sum(_)
      sum(T) == IF T = {} THEN 0 ELSE LET c == CHOOSE x \in T : TRUE IN CardPoints(c) + sum(T \ {c})
  IN sum(S)
NaturalValue(hand) ==
  LET sums == {SetSum({c \in Range(hand) : cardSuit(c) = cardSuit(d)}) : d \in Range(hand)}
      singles == {CardPoints(c) : c \in Range(hand)}
  IN CHOOSE v \in sums \cup singles : \A w \in sums \cup singles : w <= v
OneRank(hand) == \A c, d \in Range(hand) : cardRank(c) = cardRank(d)

\* C23: handValue of a 3-card hand is the same for its six orderings; it is
\* threeOfKindValue when the three ranks are equal and that value is
\* configured, whatever the suits; otherwise it is the larger of the largest
\* same-suit sum and the largest card; natural values never exceed 31, and
\* three of a kind at 30.5 is not an exact 31.
C23_HandValue ==
  LET hand == state.players[0].hand
      rules == state.rules
      fixed == rules.threeOfKindValue # NoValue /\ OneRank(hand)
  IN /\ \A q \in Orderings(hand) : handValue(q, rules) = handValue(hand, rules)
     /\ fixed => handValue(hand, rules) = rules.threeOfKindValue
     /\ ~fixed => handValue(hand, rules) = NaturalValue(hand)
     /\ NaturalValue(hand) <= 31 * Hundred
     /\ (fixed /\ rules.threeOfKindValue = 3050) => ~hasExact31(hand, rules)
     /\ state.knockedBy # NoId =>
          (IF fixed THEN rules.threeOfKindValue ELSE NaturalValue(hand)) >= rules.knockMinScore

\* C23 witness: three queens at 30.5, whose holder's knock was accepted.
C23_Witness ==
  /\ state.players[0].hand = <<2, 15, 28>>
  /\ handValue(state.players[0].hand, state.rules) = 3050
  /\ ~hasExact31(state.players[0].hand, state.rules)
  /\ state.knockedBy # NoId

\* A sequence that holds each of the 52 cards once.
IsDeck(d) == Len(d) = DeckSize /\ Range(d) = Cards

\* The deal that led to the state took its cards from the end of
\* makeDeck(seed): what is left is the stock, and each call gave that deck.
DealtFrom(s, seed) ==
  LET d == makeDeck(seed)
  IN /\ IsDeck(d)
     /\ d = makeDeck(seed)
     /\ d = deckOf(seed)
     /\ s.stock = SubSeq(d, 1, Len(s.stock))

\* The step shuffled: it dealt, or rebuilt the stock from the discard pile.
Reshuffled ==
  /\ HasLog(state', "Stock exhausted")
  /\ Len(state'.lastActionLog) > Len(state.lastActionLog)
  /\ ~HasLog(state, "Stock exhausted")
ShuffleStep == dealtBy' # "none" \/ Reshuffled

\* C24: makeDeck(seed) is a permutation of the 52 cards, the same at every
\* call; each deal takes the deck of the room's seed and each shuffle (deal
\* or stock reshuffle) moves the seed up, so that every shuffle uses a seed
\* strictly greater than the shuffle before it.
C24_DecksAndSeeds ==
  /\ [](dealtBy # "none" => DealtFrom(state, state.seed - 1))
  /\ [][/\ state'.seed >= state.seed
        /\ ShuffleStep => state'.seed = state.seed + 1
        /\ (Reshuffled /\ Acting(state').turnStage = "DREW") =>
             state'.stock \o <<last(Acting(state').hand)>> =
               shuffleInPlace(front(state.discard), state.seed)]_vars

\* The same of the decks alone, for the seeds of SpecDeck.
C24_EverySeedDealsADeck == dealtBy # "none" => DealtFrom(state, state.seed - 1)

\* C24 witness: a room two shuffles old, the second a reshuffle of the
\* discard pile into the stock.
C24_Witness ==
  /\ HasLog(state, "Stock exhausted")
  /\ state.seed - 2 \in Seeds
  /\ Len(state.stock) > 0
  /\ IsDeck(makeDeck(state.seed - 2))

\* The non-eliminated seats that come, in seat order, from the acting seat
\* up to but not including the knocker: those whose final turn is to come.
RECURSIVE SeatsToPlay(_, _, _)
SeatsToPlay(s, i, k) ==
  IF k = 0 \/ i = seatOf(s, s.knockedBy) THEN {}
  ELSE (IF s.players[i].eliminated THEN {} ELSE {i})
         \cup SeatsToPlay(s, (i + 1) % NumPlayers(s), k - 1)
FinalTurnsToCome(s) == SeatsToPlay(s, s.turnIndex, NumPlayers(s))

\* The acting seat can complete its turn: it belongs to a human whose
\* client has an action that is accepted.  (A CPU seat acts inside
\* runCpuLoop, so one that holds the turn between requests did not act.)
ActingCanPlay(s) ==
  /\ Acting(s).type = "HUMAN"
  /\ \E a \in {Action("DRAW_STOCK"), Action("DRAW_DISCARD")} \cup {Discard(c) : c \in Range(Acting(s).hand)} :
       applyAction(s, Acting(s).id, a).ok

\* The knocked round is in order: the knocker does not hold the turn, and
\* the final turns left are those of the other players still to play.
C25_KnockedRoundInOrder ==
  (state.phase = "KNOCKED" /\ Cardinality(activePlayers(state)) >= 2) =>
    /\ state.turnIndex # seatOf(state, state.knockedBy)
    /\ \A a \in Payloads(seatOf(state, state.knockedBy)) :
         ~applyAction(state, state.knockedBy, a).ok
    /\ state.finalTurnsLeft = Cardinality(FinalTurnsToCome(state))
    /\ state.finalTurnsLeft >= 1

\* The showdown is scored by the discard of the last seat before the knocker.
C25_ShowdownAfterLastTurn ==
  [][(ShowdownStep /\ Cardinality(activePlayers(state)) >= 2) =>
       /\ state.finalTurnsLeft = 1
       /\ nextActiveIndex(state, state.turnIndex) = seatOf(state, state.knockedBy)]_vars

\* C25: in a hand with two or more non-eliminated players, after an accepted
\* KNOCK the knocker has no further action accepted, and every other
\* non-eliminated player gets one more complete turn, in seat order, before
\* the showdown is scored (or a 31 ends the hand): whoever holds the turn
\* between requests can complete it.
C25_OneMoreTurnEach ==
  /\ [](C25_KnockedRoundInOrder)
  /\ C25_ShowdownAfterLastTurn
  /\ []((state.phase = "KNOCKED" /\ Cardinality(activePlayers(state)) >= 2 /\ pc = "idle")
          => ActingCanPlay(state))

CpuSeats(s) == {i \in Seats(s) : s.players[i].type = "CPU"}

\* C26: whatever the difficulty and the random choices, a CPU's discard
\* after its draw is accepted: no CPU seat is left in stage DREW, holding
\* the card it drew.
C26_CpuDiscardAccepted ==
  \A i \in CpuSeats(state) : state.players[i].turnStage # "DREW"

\* The same of the tiers that do not discard at random, for hands of the
\* regular size: a medium or hard CPU that drew to 4 cards has discarded.
C26_BestDiscardAccepted ==
  \A i \in CpuSeats(state) :
    (cpuDifficulty # "easy" /\ Len(state.players[i].hand) = 4) => state.players[i].turnStage # "DREW"

\* C27: between operations the phase is PLAYING, KNOCKED, HAND_OVER or
\* GAME_OVER, never SHOWDOWN (the last discard of a knocked round scores the
\* showdown in the same step), and applyAction never changes the phase to
\* PLAYING.
C27_NoShowdownPhase ==
  /\ [](state.phase \in {"PLAYING", "KNOCKED", "HAND_OVER", "GAME_OVER"})
  /\ [](\A pid \in Seats(state) : \A action \in Payloads(pid) :
          LET res == applyAction(state, state.players[pid].id, action)
          IN /\ res.state.phase # "SHOWDOWN"
             /\ res.state.phase = "PLAYING" => state.phase = "PLAYING")
  /\ [][(dealtBy' = "none" /\ state'.phase = "PLAYING") => state.phase = "PLAYING"]_vars

\* C27 witness: a knocked round's last discard has scored the showdown and
\* left the phase past SHOWDOWN.
C27_Witness ==
  /\ HasLog(state, "Showdown")
  /\ state.phase \in {"HAND_OVER", "GAME_OVER"}
  /\ state.knockedBy # NoId

====
